---- MODULE Spec2Model ----
(***************************************************************************)
(* MemCP: memory lifecycle and consistency engine.                         *)
(*                                                                         *)
(* Two pipelines share one relational store and one vector index:          *)
(*   - the consolidation pipeline: record_message_and_get_profile appends  *)
(*     a UserMessage, decides whether to enqueue update_profile_background *)
(*     and commits; the background task synthesizes a profile, stores the  *)
(*     extracted memories and marks the batch processed;                   *)
(*   - the memory pipeline: MemoryManager.store / search_related and       *)
(*     VectorStore.retrieve_vectors.                                       *)
(***************************************************************************)
EXTENDS Integers, Sequences, FiniteSets, TLC

\* ------------------------------------------------------------------------
\* Bounds of the model
\* ------------------------------------------------------------------------
MaxMsgs == 3
MaxTasks == 2
MaxMems == 3
MaxStores == 2
MaxDels == 2
MaxOps == 2
MaxDepth == 2
MaxGets == 2
MaxCalls == 2
MaxKeys == 2
MaxAuthReqs == 3
MaxUpds == 2
MaxPurges == 2
MaxFrameCalls == 1
MaxIdxCalls == 2

\* ------------------------------------------------------------------------
\* Program constants
\* ------------------------------------------------------------------------
LLM_PROCESS_BATCH_SIZE == 3
score_threshold == 40
upper_score_threshold == 98
SearchLimit == 25
DedupThreshold == 90

Users == {"u1", "u2"}
None == "none"

\* ------------------------------------------------------------------------
\* Embedding and cosine score
\* ------------------------------------------------------------------------
\* Texts that are stored and searched.  Each one has a fixed embedding:
\* the embedding service is a function of the text.
\* Against "c1" the scores are: c1 1.00, c2 0.98, c3 0.99, c4 0.40, c5 0.02,
\* c6 0.90.
Contents == {"c1", "c2", "c3", "c4", "c5"}

Embed(c) ==
    CASE c = "c1" -> <<7, 1, 0, 0>>
      [] c = "c2" -> <<7, 0, 1, 0>>
      [] c = "c3" -> <<7, 1, 0, 1>>
      [] c = "c4" -> <<2, 6, 3, 1>>
      [] c = "c5" -> <<0, 1, 7, 0>>
      [] c = "c6" -> <<6, 3, 2, 1>>
      [] OTHER    -> <<0, 0, 0, 1>>

Dot(a, b) == a[1] * b[1] + a[2] * b[2] + a[3] * b[3] + a[4] * b[4]

\* Distance.COSINE: score = Dot(a,b) / (|a| |b|).  All components are
\* non-negative, so the comparisons with a threshold given in hundredths
\* are done exactly on the squares.
CosGE(a, b, pct) == Dot(a, b) * Dot(a, b) * 10000 >= pct * pct * Dot(a, a) * Dot(b, b)
CosGT(a, b, pct) == Dot(a, b) * Dot(a, b) * 10000 > pct * pct * Dot(a, a) * Dot(b, b)

\* a scores strictly higher than b against the query vector q
ScoreHigher(a, b, q) ==
    Dot(a, q) * Dot(a, q) * Dot(b, b) > Dot(b, q) * Dot(b, q) * Dot(a, a)

\* str.strip() on the texts the synthesizer may return
Strip(c) ==
    CASE c = " "   -> ""
      [] c = "c1 " -> "c1"
      [] OTHER     -> c

\* ------------------------------------------------------------------------
\* State
\* ------------------------------------------------------------------------
VARIABLES
    messages,     \* user_messages rows, index = id
    reqs,         \* record_message_and_get_profile calls, one per message
    profile,      \* processed_user_profiles, one slot per user
    tasks,        \* update_profile_background tasks sent to the queue
    memRows,      \* memories rows (relational store)
    points,       \* points of the Qdrant collection
    nextId,       \* uuid4 source: next unused memory id
    stores,       \* MemoryManager.store calls
    dels,         \* remove_memory calls
    lastCall,     \* the latest search_related / retrieve_vectors call and its outcome
    upds,         \* update_memory calls
    ctxval,       \* value of the ContextVar _current_user_id in each context
    ops,          \* asyncio tasks that use the user context
    mcpCalls,     \* get_user_id_from_context calls of the MCP tools
    apiKeys,      \* users.api_key, 0 for NULL
    nextKey,      \* secrets.token_urlsafe: next unused key
    authCache,    \* Redis entries auth:api_key:<key>
    revokes,      \* keys whose revocation returned success
    authReqs,     \* requests seen by MCPPathAuthMiddleware and their outcome
    purges,       \* DELETE /auth/me calls (delete_user_and_all_data)
    collection,   \* whether the Qdrant collection exists
    idxCalls      \* calls into VectorStore / SyncVectorStore / MemoryManager()

workerVars == <<messages, reqs, profile, tasks>>
storeVars == <<stores, dels, lastCall>>
contextVars == <<ctxval, ops, mcpCalls>>
authVars == <<apiKeys, nextKey, authCache, revokes, authReqs>>
adminVars == <<purges, collection, idxCalls>>

vars == <<messages, reqs, profile, tasks, memRows, points, nextId, stores, dels, lastCall,
          upds, contextVars, authVars, adminVars>>

\* rows: the number of rows of the table with this user_id
NoProfile == [exists |-> FALSE, rows |-> 0, summary |-> {}, metadata |-> ""]

NoCall == [op |-> "none", status |-> "none", user |-> None, query |-> "",
           ids |-> {}, raw |-> {}, hits |-> {}, stored |-> {}, deleted |-> {},
           embedded |-> FALSE]

\* No update, no task using the user context, no MCP call, no API key
InitRequests ==
    /\ upds = <<>>
    /\ ctxval = [c \in 0..MaxOps |-> None]
    /\ ops = <<>>
    /\ mcpCalls = <<>>
    /\ apiKeys = [u \in Users |-> 0]
    /\ nextKey = 1
    /\ authCache = [k \in 1..MaxKeys |-> None]
    /\ revokes = {}
    /\ authReqs = <<>>
    /\ purges = <<>>
    /\ collection = FALSE
    /\ idxCalls = <<>>

Init ==
    /\ InitRequests
    /\ messages = <<>>
    /\ reqs = <<>>
    /\ profile = [u \in Users |-> NoProfile]
    /\ tasks = <<>>
    /\ memRows = {}
    /\ points = {}
    /\ nextId = 1
    /\ stores = <<>>
    /\ dels = <<>>
    /\ lastCall = NoCall


\* ------------------------------------------------------------------------
\* ProfileProcessor.record_message_and_get_profile
\* ------------------------------------------------------------------------
MsgIds == 1..Len(messages)

RECURSIVE SortedSeq(_)
\* ORDER BY created_at ASC: ids are handed out in creation order
SortedSeq(S) ==
    IF S = {} THEN <<>>
    ELSE LET x == CHOOSE y \in S : \A z \in S : y <= z
         IN <<x>> \o SortedSeq(S \ {x})

SeqToSet(s) == {s[i] : i \in 1..Len(s)}

\* The same rows without the row flushed by the request itself
UnprocessedCommittedOnly(u, m) ==
    {i \in MsgIds : /\ messages[i].user = u
                    /\ ~messages[i].processed
                    /\ messages[i].state = "committed"}

\* Only the row flushed by the request itself
UnprocessedOwnOnly(u, m) == {m}

\* WHERE user_id = u AND is_processed = False, as seen by the session of
\* the request that has just flushed row m: the committed rows plus m.
UnprocessedVisible(u, m) ==
    {i \in MsgIds : /\ messages[i].user = u
                    /\ ~messages[i].processed
                    /\ messages[i].state = "committed"} \cup {m}

\* A profile row is never taken for empty
profile_is_empty_never(meta, summary) == FALSE

profile_is_empty(meta, summary) ==
    /\ (meta = "" \/ meta = "{}")
    /\ summary = {}

\* A decision by the count of unprocessed messages alone
should_trigger_by_count_only(existing, u, m) ==
    IF Cardinality(UnprocessedVisible(u, m)) >= LLM_PROCESS_BATCH_SIZE
    THEN [trigger |-> TRUE, batch |-> SortedSeq(UnprocessedVisible(u, m))]
    ELSE [trigger |-> FALSE, batch |-> <<>>]

\* The decision and the batch handed to the task.
\* existing: the profile row read by the caller (NoProfile when absent).
_should_trigger_profile_update(existing, u, m) ==
    IF ~existing.exists
    THEN [trigger |-> TRUE, batch |-> SortedSeq(UnprocessedVisible(u, m))]
    ELSE IF profile_is_empty(existing.metadata, existing.summary)
    THEN [trigger |-> TRUE, batch |-> SortedSeq(UnprocessedVisible(u, m))]
    ELSE IF Cardinality(UnprocessedVisible(u, m)) >= LLM_PROCESS_BATCH_SIZE
    THEN [trigger |-> TRUE, batch |-> SortedSeq(UnprocessedVisible(u, m))]
    ELSE [trigger |-> FALSE, batch |-> <<>>]

\* raw: raw_metadata_str, the metadata string as the synthesizer returned it
NoResp == [summary |-> {}, metadata |-> "", raw |-> "", memories |-> <<>>]

\* A task message on the queue and, once a worker picked it up, the local
\* state of the run.  Locals are reset when the code reads them no more.
NewTask(u, batch, meta, summary) ==
    [user |-> u, batch |-> batch, exMeta |-> meta, exSummary |-> summary,
     pc |-> "queued", text |-> <<>>, resp |-> NoResp, sawProfile |-> FALSE,
     memData |-> <<>>, memCommit |-> "none", vec |-> "none"]

\* apply_async (lines 144-156): the task is put on the queue; nothing is
\* looked up, compared or dropped on the way. The task_id built at line 145
\* from the user and the number of unprocessed messages only names the
\* result of the task: a message published under an id in use is delivered
\* and executed like any other.
Enqueue(q, task) == Append(q, task)

\* lines 94-156: add the message and flush it (not yet committed, so no
\* other session sees it), read the existing profile, decide and, if the
\* conditions are met, send the task.  The reads of lines 102 and 41-85 see
\* the same committed state.
RecordMessage(u) ==
    /\ Len(messages) < MaxMsgs
    /\ messages' = Append(messages, [user |-> u, state |-> "flushed", processed |-> FALSE])
    /\ reqs' = Append(reqs, [pc |-> "decided"])
    /\ LET m == Len(messages) + 1
           existing == profile[u]
           d == _should_trigger_profile_update(existing, u, m)
       IN IF d.trigger
          THEN /\ Len(tasks) < MaxTasks
               /\ tasks' = Enqueue(tasks, NewTask(u, d.batch, existing.metadata, existing.summary))
          ELSE tasks' = tasks
    /\ UNCHANGED <<adminVars, profile, memRows, points, nextId, storeVars, upds, contextVars, authVars>>

\* line 158: commit of the request's session; a failed commit loses the row
RecordCommit(m) ==
    /\ reqs[m].pc = "decided"
    /\ \E ok \in BOOLEAN :
        /\ messages' = [messages EXCEPT ![m].state = IF ok THEN "committed" ELSE "rolledback"]
        /\ reqs' = [reqs EXCEPT ![m].pc = IF ok THEN "done" ELSE "failed"]
    /\ UNCHANGED <<adminVars, profile, tasks, memRows, points, nextId, storeVars, upds, contextVars, authVars>>

\* ------------------------------------------------------------------------
\* tasks.update_profile_background
\* ------------------------------------------------------------------------
TaskIds == 1..Len(tasks)

\* Answers of get_llm_profile_synthesis as read at lines 220-222: a summary
\* (covering the existing summary and the batch, or blank), a metadata
\* string and the extracted memories.
LLMResponses(t) ==
    LET cover == tasks[t].exSummary \cup SeqToSet(tasks[t].batch)
    IN {[summary |-> cover, metadata |-> "json", memories |-> <<>>],
        [summary |-> cover, metadata |-> "bad",  memories |-> <<"c1 ", " ">>],
        [summary |-> {},    metadata |-> "bad",  memories |-> <<>>],
        [summary |-> cover, metadata |-> "json", memories |-> <<"c2", "c2">>]}

\* Every metadata string taken for valid
ValidJsonAlways(meta) == TRUE

\* json.loads succeeds on the metadata string
ValidJson(meta) == meta = "json" \/ meta = "{}"

\* lines 224-233: the metadata that is persisted
new_metadata_json_str(raw) == IF ValidJson(raw) THEN raw ELSE "{}"

\* The parts joined newest first
user_messages_str_reversed(batch) ==
    [i \in 1..Len(batch) |->
        [Timestamp |-> batch[Len(batch) + 1 - i], User |-> batch[Len(batch) + 1 - i]]]

\* lines 191-203: one part "Timestamp: ...\nUser: ..." per message of the
\* list, in the order of the list, joined by blank lines
user_messages_str(batch) ==
    [i \in 1..Len(batch) |-> [Timestamp |-> batch[i], User |-> batch[i]]]

\* A worker that picked the task up runs it: the task body takes no lock
\* and checks for no other run of the same user (lines 184-188).
MayStart(t) == tasks[t].pc = "queued"

\* The rows flipped when a run ends before the profile update
AbortMarksBatch(t) == SeqToSet(tasks[t].batch)

AbortMarks(t) == {}

\* lines 306-331: the run ends by an exception raised before line 244:
\* the session is closed and the exception re-raised
AbortRun(t) ==
    /\ tasks' = [tasks EXCEPT ![t].pc = "aborted",
                              ![t].exMeta = "", ![t].exSummary = {}]
    /\ messages' = [i \in MsgIds |->
                      IF i \in AbortMarks(t)
                      THEN [messages[i] EXCEPT !.processed = TRUE]
                      ELSE messages[i]]
    /\ UNCHANGED <<adminVars, reqs, profile, memRows, points, nextId, storeVars, upds, contextVars, authVars>>

\* lines 184-243: build the message text, call the synthesizer, parse
TaskSynthesize(t) ==
    /\ MayStart(t)
    /\ \/ \* the call raises, or an attribute of the answer is missing
          AbortRun(t)
       \/ \E r \in LLMResponses(t) :
            /\ tasks' = [tasks EXCEPT
                  ![t].pc = "select",
                  ![t].exMeta = "", ![t].exSummary = {},
                  ![t].text = user_messages_str(tasks[t].batch),
                  ![t].resp = [summary |-> r.summary,
                               metadata |-> new_metadata_json_str(r.metadata),
                               raw |-> r.metadata,
                               memories |-> r.memories]]
            /\ UNCHANGED <<adminVars, messages, reqs, profile, memRows, points, nextId, storeVars, upds, contextVars, authVars>>

\* lines 247-249: look for the existing profile row
TaskSelectProfile(t) ==
    /\ tasks[t].pc = "select"
    /\ tasks' = [tasks EXCEPT ![t].pc = "profile", ![t].text = <<>>,
                              ![t].sawProfile = profile[tasks[t].user].exists]
    /\ UNCHANGED <<adminVars, messages, reqs, profile, memRows, points, nextId, storeVars, upds, contextVars, authVars>>

\* A table without the unique constraint
UniqueViolationNever(t) == FALSE

\* user_id is unique (processed_user_profiles): the INSERT of a run that
\* found no row fails when a row for the user has been committed since
UniqueViolation(t) == ~tasks[t].sawProfile /\ profile[tasks[t].user].exists

\* lines 251-267 and 289-297: update the row found or insert one, and
\* commit.
TaskCommitProfile(t) ==
    /\ tasks[t].pc = "profile"
    /\ LET u == tasks[t].user
       IN \E ok \in BOOLEAN :
            IF ok /\ ~UniqueViolation(t)
            THEN /\ profile' = [profile EXCEPT ![u] =
                        [exists |-> TRUE,
                         rows |-> IF tasks[t].sawProfile THEN profile[u].rows
                                  ELSE profile[u].rows + 1,
                         summary |-> tasks[t].resp.summary,
                         metadata |-> tasks[t].resp.metadata]]
                 /\ tasks' = [tasks EXCEPT
                        ![t].sawProfile = FALSE,
                        ![t].resp = [NoResp EXCEPT !.memories = tasks[t].resp.memories],
                        ![t].pc = IF tasks[t].resp.memories # <<>>
                                  THEN "memories" ELSE "mark"]
            ELSE /\ profile' = profile
                 /\ tasks' = [tasks EXCEPT ![t].pc = "failed_profile",
                                           ![t].sawProfile = FALSE,
                                           ![t].resp = NoResp]
    /\ UNCHANGED <<adminVars, messages, reqs, memRows, points, nextId, storeVars, upds, contextVars, authVars>>

\* ------------------------------------------------------------------------
\* tasks._store_memories_batch
\* ------------------------------------------------------------------------
\* SyncVectorStore.search_similar_memories: the points of the user whose
\* similarity to the text reaches the dedup threshold
search_similar_memories(content, u) ==
    {p \in points : /\ p.user = u
                    /\ CosGE(Embed(content), Embed(p.content), DedupThreshold)}

\* A check whose failure drops the candidate
IsSkippedOnRaise(cleaned, u, raises) ==
    \/ raises
    \/ search_similar_memories(cleaned, u) # {}

\* The duplicate check of one candidate (lines 102-120): TRUE when the
\* candidate is skipped.  A check that raises never skips.
IsSkipped(cleaned, u, raises) ==
    /\ ~raises
    /\ search_similar_memories(cleaned, u) # {}

RECURSIVE Kept(_, _, _, _)
\* The loop of lines 96-136 from candidate i on: the cleaned texts that are
\* flushed as Memory rows.  raiseSet: the candidates whose duplicate check
\* raises.
Kept(cands, i, u, raiseSet) ==
    IF i > Len(cands) THEN <<>>
    ELSE LET cleaned == Strip(cands[i])
             rest == Kept(cands, i + 1, u, raiseSet)
         IN IF cleaned = "" THEN rest
            ELSE IF IsSkipped(cleaned, u, i \in raiseSet) THEN rest
            ELSE <<cleaned>> \o rest

\* A batch that keeps one row per distinct text
MemoryDataDistinct(kept, first) ==
    LET idx == {i \in 1..Len(kept) : \A j \in 1..(i - 1) : kept[j] # kept[i]}
        pick == SortedSeq(idx)
    IN [i \in 1..Cardinality(idx) |->
          [memory_id |-> first + i - 1, content |-> kept[pick[i]]]]

\* lines 122-132: one memory_data entry, with a new id, per stored candidate
MemoryData(kept, first) ==
    [i \in 1..Len(kept) |-> [memory_id |-> first + i - 1, content |-> kept[i]]]

RowsOf(data, u) ==
    {[id |-> data[i].memory_id, user |-> u, content |-> data[i].content,
      tags |-> <<"ai_extracted">>] : i \in 1..Len(data)}

\* A batch whose points are written whatever the commit did
AfterMemoryCommitAlwaysVectors(ok, data) ==
    IF Len(data) > 0 THEN "vectors" ELSE "mark"

\* lines 141-153: a failed commit rolls back and returns [] (no vector
\* write); after a successful commit the points are written if memory_data
\* is not empty
AfterMemoryCommit(ok, data) ==
    IF ok /\ Len(data) > 0 THEN "vectors" ELSE "mark"

\* lines 84-150: duplicate checks, flushes and the commit of the rows.
\* A flush that raises (line 134) leaves the session in a failed
\* transaction, so the commit of line 143 raises too: the outcome is that
\* of a failed commit.
TaskStoreMemories(t) ==
    /\ tasks[t].pc = "memories"
    /\ LET u == tasks[t].user
           cands == tasks[t].resp.memories
       IN \/ \* line 88: the vector store cannot be constructed; the
             \* exception reaches line 289
             /\ tasks' = [tasks EXCEPT ![t].pc = "failed_store", ![t].resp = NoResp]
             /\ UNCHANGED <<memRows, nextId>>
          \/ \E raiseSet \in SUBSET (1..Len(cands)), ok \in BOOLEAN :
               LET kept == Kept(cands, 1, u, raiseSet)
                   data == MemoryData(kept, nextId)
               IN /\ nextId + Len(kept) - 1 <= MaxMems
                  /\ nextId' = nextId + Len(kept)
                  /\ memRows' = IF ok THEN memRows \cup RowsOf(data, u) ELSE memRows
                  /\ tasks' = [tasks EXCEPT
                        ![t].resp = NoResp,
                        ![t].memData = data,
                        ![t].memCommit = IF ok THEN "ok" ELSE "failed",
                        ![t].pc = AfterMemoryCommit(ok, data)]
    /\ UNCHANGED <<adminVars, messages, reqs, profile, points, storeVars, upds, contextVars, authVars>>

\* lines 152-163: SyncVectorStore.store_memories_batch, failure tolerated
TaskStoreVectors(t) ==
    /\ tasks[t].pc = "vectors"
    /\ \E ok \in BOOLEAN :
        /\ points' = IF ok THEN points \cup RowsOf(tasks[t].memData, tasks[t].user)
                     ELSE points
        /\ tasks' = [tasks EXCEPT ![t].vec = IF ok THEN "ok" ELSE "failed",
                                  ![t].pc = "mark"]
    /\ UNCHANGED <<adminVars, messages, reqs, profile, memRows, nextId, storeVars, upds, contextVars, authVars>>

\* A run that marked every message of its user
MarkedIdsAllOfUser(t) == {i \in MsgIds : messages[i].user = tasks[t].user}

\* A run that marked only the newest message of its batch
MarkedIdsNewestOnly(t) ==
    IF tasks[t].batch = <<>> THEN {} ELSE {tasks[t].batch[Len(tasks[t].batch)]}

\* lines 192-201: message_ids_to_mark holds the id of every message of the
\* batch
MarkedIds(t) == SeqToSet(tasks[t].batch)

\* lines 276-297: UPDATE user_messages SET is_processed WHERE id IN
\* message_ids_to_mark.  The statement sees the committed rows only.
TaskMark(t) ==
    /\ tasks[t].pc = "mark"
    /\ \E ok \in BOOLEAN :
        IF tasks[t].batch = <<>>
        THEN /\ messages' = messages
             /\ tasks' = [tasks EXCEPT ![t].pc = "done"]
        ELSE IF ok
        THEN /\ messages' = [i \in MsgIds |->
                               IF i \in MarkedIds(t) /\ messages[i].state = "committed"
                               THEN [messages[i] EXCEPT !.processed = TRUE]
                               ELSE messages[i]]
             /\ tasks' = [tasks EXCEPT ![t].pc = "done"]
        ELSE /\ messages' = messages
             /\ tasks' = [tasks EXCEPT ![t].pc = "failed_mark"]
    /\ UNCHANGED <<adminVars, reqs, profile, memRows, points, nextId, storeVars, upds, contextVars, authVars>>

NextWorker ==
    \/ \E u \in Users : RecordMessage(u)
    \/ \E m \in MsgIds : RecordCommit(m)
    \/ \E t \in TaskIds : TaskSynthesize(t)
    \/ \E t \in TaskIds : TaskSelectProfile(t)
    \/ \E t \in TaskIds : TaskCommitProfile(t)
    \/ \E t \in TaskIds : TaskStoreMemories(t)
    \/ \E t \in TaskIds : TaskStoreVectors(t)
    \/ \E t \in TaskIds : TaskMark(t)

SpecWorker == Init /\ [][NextWorker]_vars

\* ------------------------------------------------------------------------
\* The scheduler decision over the profile rows a user can have
\* ------------------------------------------------------------------------
\* A profile row as update_profile_background writes it: with a summary and
\* metadata, or with neither (blank summary, metadata "{}")
ProfileRows ==
    {NoProfile,
     [exists |-> TRUE, rows |-> 1, summary |-> {},  metadata |-> "{}"],
     [exists |-> TRUE, rows |-> 1, summary |-> {0}, metadata |-> "json"]}

\* Requests arriving at a database whose profile table is in any of these
\* states and whose earlier messages are all processed
InitScheduler ==
    /\ InitRequests
    /\ messages = <<>>
    /\ reqs = <<>>
    /\ profile \in [Users -> ProfileRows]
    /\ tasks = <<>>
    /\ memRows = {}
    /\ points = {}
    /\ nextId = 1
    /\ stores = <<>>
    /\ dels = <<>>
    /\ lastCall = NoCall

NextScheduler ==
    \/ \E u \in Users : RecordMessage(u)
    \/ \E m \in MsgIds : RecordCommit(m)

SpecScheduler == InitScheduler /\ [][NextScheduler]_vars


\* ------------------------------------------------------------------------
\* MemoryManager.store
\* ------------------------------------------------------------------------
StoreIds == 1..Len(stores)

\* The (content, tags) arguments of the store calls
StoreInputs == {<<"c1", <<>>>>, <<"c2", <<"t">>>>, <<"c3", <<>>>>,
                <<"c4", <<"t">>>>, <<"c5", <<>>>>}

\* Every caller taken for resolved
OwnerResolvedAlways(u) == TRUE

\* get_current_user_id() is not None (store line 98, search_related line
\* 162, process_context line 220)
OwnerResolved(u) == u # None

PointOf(id, u, content, tags) ==
    [id |-> id, user |-> u, content |-> content, tags |-> tags]

\* lines 92-131: resolve the user, generate the id, embed, upsert the point
StoreUpsert(u, in) ==
    /\ Len(stores) < MaxStores
    /\ IF ~OwnerResolved(u)
       THEN \* lines 98-102: UserContextError
            /\ stores' = Append(stores, [user |-> u, content |-> in[1], tags |-> in[2],
                                         id |-> 0, pc |-> "rejected", embedded |-> FALSE])
            /\ UNCHANGED <<points, nextId>>
       ELSE /\ nextId <= MaxMems
            /\ nextId' = nextId + 1
            /\ \E ok \in BOOLEAN :
                 /\ points' = IF ok THEN points \cup {PointOf(nextId, u, in[1], in[2])}
                              ELSE points
                 /\ stores' = Append(stores, [user |-> u, content |-> in[1], tags |-> in[2],
                                              id |-> nextId,
                                              pc |-> IF ok THEN "upserted" ELSE "failed_vec",
                                              embedded |-> TRUE])
    /\ UNCHANGED <<adminVars, workerVars, upds, contextVars, authVars, memRows, dels, lastCall>>

\* lines 144-150: the points left in the index when the relational write of
\* store s failed: the handler raises DatabaseOperationError and does not
\* touch the collection
AfterFailedInsert(s) == points

\* lines 133-152: insert the Memory row and commit
StoreCommit(s) ==
    /\ stores[s].pc = "upserted"
    /\ \E ok \in BOOLEAN :
        IF ok
        THEN /\ memRows' = memRows \cup {PointOf(stores[s].id, stores[s].user,
                                                 stores[s].content, stores[s].tags)}
             /\ points' = points
             /\ stores' = [stores EXCEPT ![s].pc = "done"]
        ELSE \* lines 144-150: DatabaseOperationError
             /\ memRows' = memRows
             /\ points' = AfterFailedInsert(s)
             /\ stores' = [stores EXCEPT ![s].pc = "failed_db"]
    /\ UNCHANGED <<adminVars, workerVars, upds, contextVars, authVars, nextId, dels, lastCall>>

\* ------------------------------------------------------------------------
\* MemoryManager.search_related / VectorStore.search_memories
\* ------------------------------------------------------------------------
\* Filter(must=[FieldCondition(key="user_id", match=MatchValue(u))])
MatchesAnyUser(p, u) == TRUE

MatchesUser(p, u) == p.user = u

\* client.search: the points that pass the filter and whose score reaches
\* score_threshold, best first, at most `limit` of them
QdrantSearch(qvec, u, threshold, limit) ==
    LET cand == {p \in points : /\ MatchesUser(p, u)
                                /\ CosGE(qvec, Embed(p.content), threshold)}
    IN IF Cardinality(cand) <= limit THEN cand
       ELSE CHOOSE top \in SUBSET cand :
              /\ Cardinality(top) = limit
              /\ \A p \in top, r \in cand \ top :
                    ~ScoreHigher(Embed(r.content), Embed(p.content), qvec)

\* lines 198-202: a hit is dropped when hit.score > upper_score_threshold
AboveUpperGE(qvec, p) == CosGE(qvec, Embed(p.content), upper_score_threshold)

AboveUpperNever(qvec, p) == FALSE

AboveUpper(qvec, p) == CosGT(qvec, Embed(p.content), upper_score_threshold)

\* The query texts of the search calls
Queries == {"c1", "c3"}

DoneStores == {stores[s].id : s \in {x \in StoreIds : stores[x].pc = "done"}}

\* The ids whose removal has returned its success message
DoneDeletes == {dels[d].id : d \in {x \in 1..Len(dels) : dels[x].pc = "done"}}

\* lines 155-213.  embedded: the embedding service was called (line 168)
SearchRelated(u, q) ==
    /\ IF ~OwnerResolved(u)
       THEN lastCall' = [NoCall EXCEPT !.op = "search", !.status = "rejected", !.query = q]
       ELSE \/ \* the embedding or the search raises
               lastCall' = [NoCall EXCEPT !.op = "search", !.status = "error",
                                          !.user = u, !.query = q, !.embedded = TRUE]
            \/ LET raw == QdrantSearch(Embed(q), u, score_threshold, SearchLimit)
               IN lastCall' = [op |-> "search", status |-> "ok", user |-> u, query |-> q,
                               ids |-> {}, raw |-> raw,
                               hits |-> {p \in raw : ~AboveUpper(Embed(q), p)},
                               stored |-> DoneStores, deleted |-> DoneDeletes,
                               embedded |-> TRUE]
    /\ UNCHANGED <<adminVars, workerVars, upds, contextVars, authVars, memRows, points, nextId, stores, dels>>

\* ------------------------------------------------------------------------
\* VectorStore.retrieve_vectors
\* ------------------------------------------------------------------------
\* line 191: point.payload.get("user_id") == user_id_str
OwnedBy(p, u) == p.user = u

\* lines 172-199
RetrieveVectors(u, ids) ==
    /\ \/ \* line 182: client.retrieve raises; no call is made for no ids
          /\ ids # {}
          /\ lastCall' = [NoCall EXCEPT !.op = "retrieve", !.status = "error",
                                        !.user = u, !.ids = ids]
       \/ lastCall' = [NoCall EXCEPT !.op = "retrieve", !.status = "ok",
                                     !.user = u, !.ids = ids,
                                     !.hits = IF ids = {} THEN {}
                                              ELSE {p \in points : p.id \in ids /\ OwnedBy(p, u)}]
    /\ UNCHANGED <<adminVars, workerVars, upds, contextVars, authVars, memRows, points, nextId, stores, dels>>

NextStore ==
    \/ \E u \in Users \cup {None}, in \in StoreInputs : StoreUpsert(u, in)
    \/ \E s \in StoreIds : StoreCommit(s)
    \/ \E u \in Users \cup {None}, q \in Queries : SearchRelated(u, q)
    \/ \E u \in Users, ids \in SUBSET (1..MaxMems) : RetrieveVectors(u, ids)

SpecStore == Init /\ [][NextStore]_vars

\* ------------------------------------------------------------------------
\* mcp.remove_memory / crud_memory.delete_memory
\* ------------------------------------------------------------------------
DelIds == 1..Len(dels)

\* crud_memory.get_memory_by_id: SELECT ... WHERE id = memory_id, with no
\* condition on the user
get_memory_by_id(id) == {r \in memRows : r.id = id}

\* The user of the row with this id, None when there is no such row
RowOwner(id) ==
    IF get_memory_by_id(id) = {} THEN None
    ELSE (CHOOSE r \in get_memory_by_id(id) : TRUE).user

\* crud_memory.delete_memory, lines 111-124: the exception raised before
\* the row is touched, "ok" when there is none
DeleteCheck(u, id) ==
    IF get_memory_by_id(id) = {} THEN "RecordNotFoundError"
    ELSE IF RowOwner(id) # u THEN "DatabaseOperationError"
    ELSE "ok"

\* A removal holds the lock of the row from its DELETE to the end of its
\* transaction
RowLocked(id) ==
    \E d \in DelIds : dels[d].id = id /\ dels[d].pc \in {"flushed", "vector_done"}

\* crud_memory.delete_memory (lines 105-136) as called for the user of
\* the request: look the row up, check the user, DELETE and flush.  The
\* DELETE of a row locked by another removal waits for that transaction.
DeleteRelational(u, id) ==
    /\ Len(dels) < MaxDels
    /\ ~RowLocked(id)
    /\ LET check == DeleteCheck(u, id)
       IN \E ok \in BOOLEAN :
            dels' = Append(dels,
                       [user |-> u, id |-> id, owner |-> RowOwner(id), vec |-> "none",
                        pc |-> IF check # "ok" THEN check
                               ELSE IF ok THEN "flushed"
                               ELSE "DatabaseOperationError"])
    /\ UNCHANGED <<adminVars, workerVars, upds, contextVars, authVars, memRows, points, nextId, stores, lastCall>>

\* The points left by the removal of point id for user u: the payload user
\* is verified before the point is removed
VectorDelete(id, u) == points \ {p \in points : p.id = id /\ p.user = u}

\* The vector side of the removal: done after the relational delete, and
\* a failure of it does not fail the removal
DeleteVector(d) ==
    /\ dels[d].pc = "flushed"
    /\ \E ok \in BOOLEAN :
        /\ points' = IF ok THEN VectorDelete(dels[d].id, dels[d].user) ELSE points
        /\ dels' = [dels EXCEPT ![d].pc = "vector_done",
                                ![d].vec = IF ok THEN "ok" ELSE "failed"]
    /\ UNCHANGED <<adminVars, workerVars, upds, contextVars, authVars, memRows, nextId, stores, lastCall>>

\* A removal that leaves the row in the table
RowsAfterDeleteKept(id) == memRows

\* crud_memory.delete_memory, lines 126-129: db.delete(memory), as it shows
\* once the transaction is committed
RowsAfterDelete(id) == memRows \ get_memory_by_id(id)

\* A removal whose commit also marked the user's messages
DeleteCommitMarking(d) ==
    /\ dels[d].pc = "vector_done"
    /\ \E ok \in BOOLEAN :
        IF ok
        THEN /\ memRows' = RowsAfterDelete(dels[d].id)
             /\ dels' = [dels EXCEPT ![d].pc = "done"]
        ELSE /\ memRows' = memRows
             /\ dels' = [dels EXCEPT ![d].pc = "failed_commit"]
    /\ messages' = [i \in MsgIds |->
                      IF messages[i].user = dels[d].user
                      THEN [messages[i] EXCEPT !.processed = TRUE] ELSE messages[i]]
    /\ UNCHANGED <<adminVars, reqs, profile, tasks, upds, contextVars, authVars,
                   points, nextId, stores, lastCall>>

\* mcp.remove_memory, lines 213-226: commit and return the message, or
\* roll back and raise
DeleteCommit(d) ==
    /\ dels[d].pc = "vector_done"
    /\ \E ok \in BOOLEAN :
        IF ok
        THEN /\ memRows' = RowsAfterDelete(dels[d].id)
             /\ dels' = [dels EXCEPT ![d].pc = "done"]
        ELSE /\ memRows' = memRows
             /\ dels' = [dels EXCEPT ![d].pc = "failed_commit"]
    /\ UNCHANGED <<adminVars, workerVars, upds, contextVars, authVars, points, nextId, stores, lastCall>>

\* The memory tools of one server: remember_fact, get_related_memory and
\* remove_memory.  "c2" scores 0.98 against the query "c1", so a stored
\* "c2" is a hit of the search.
NextDelete ==
    \/ \E u \in Users : StoreUpsert(u, <<"c2", <<>>>>)
    \/ \E s \in StoreIds : StoreCommit(s)
    \/ \E u \in Users, id \in 1..MaxMems : DeleteRelational(u, id)
    \/ \E d \in DelIds : DeleteVector(d)
    \/ \E d \in DelIds : DeleteCommit(d)
    \/ \E u \in Users : SearchRelated(u, "c1")

SpecDelete == Init /\ [][NextDelete]_vars

\* ------------------------------------------------------------------------
\* Entry points of store: mcp.remember_fact and POST /memories
\* ------------------------------------------------------------------------
\* The tags arguments of the calls: lists of strings, some of them blank
TagInputs == {<<>>, <<" ">>, <<"t1", "t2", "t3">>, <<"t1", "t2", "t3", "t4">>,
              <<" ", "t1", "t2", "t3", "t4">>}

\* str(tag).strip() on the tags of TagInputs
StripTag(tag) == IF tag = " " THEN "" ELSE tag

\* tag_parser.parse_tags_input on a list (lines 25-28): the stripped
\* non-blank tags; None, which store turns into [], when there is none
parse_tags_input(value) ==
    SelectSeq([i \in 1..Len(value) |-> StripTag(value[i])], LAMBDA x : x # "")

\* mcp.remember_fact, lines 67-87: parse, keep the first 3
remember_fact_tags(value) ==
    IF Len(parse_tags_input(value)) > 3
    THEN SubSeq(parse_tags_input(value), 1, 3)
    ELSE parse_tags_input(value)

\* mcp.remember_fact, lines 94-112
RememberFact(u, content, value) ==
    StoreUpsert(u, <<content, remember_fact_tags(value)>>)

\* routers.memory.create_memory and create_bulk_memories: the tags of
\* MemoryCreate (Optional[List[str]], no length limit) go to store as given
CreateMemory(u, content, value) ==
    StoreUpsert(u, <<content, value>>)

NextEntry ==
    \/ \E u \in Users, value \in TagInputs : RememberFact(u, "c2", value)
    \/ \E u \in Users, value \in TagInputs : CreateMemory(u, "c2", value)
    \/ \E s \in StoreIds : StoreCommit(s)

SpecEntry == Init /\ [][NextEntry]_vars

\* ------------------------------------------------------------------------
\* MemoryManager.process_context
\* ------------------------------------------------------------------------
\* lines 215-263.  With a user: the message is inserted and committed
\* (lines 226-230) and the profile read; the dispatch of line 253 passes a
\* prompt where update_profile_background (tasks.py, lines 166-171) takes
\* unprocessed_messages, so the argument check of the task raises and
\* nothing is put on the queue.
ProcessContext(u) ==
    /\ IF ~OwnerResolved(u)
       THEN /\ lastCall' = [NoCall EXCEPT !.op = "process_context", !.status = "rejected"]
            /\ UNCHANGED <<messages, reqs>>
       ELSE /\ Len(messages) < MaxMsgs
            /\ messages' = Append(messages, [user |-> u, state |-> "committed",
                                             processed |-> FALSE])
            /\ reqs' = Append(reqs, [pc |-> "done"])
            /\ lastCall' = [NoCall EXCEPT !.op = "process_context", !.status = "error",
                                          !.user = u]
    /\ UNCHANGED <<adminVars, profile, tasks, memRows, points, nextId, stores, dels, upds,
                   contextVars, authVars>>

NextOwner ==
    \/ \E u \in Users \cup {None} : StoreUpsert(u, <<"c2", <<>>>>)
    \/ \E s \in StoreIds : StoreCommit(s)
    \/ \E u \in Users \cup {None} : SearchRelated(u, "c1")
    \/ \E u \in Users \cup {None} : ProcessContext(u)

SpecOwner == Init /\ [][NextOwner]_vars

\* ------------------------------------------------------------------------
\* routers.memory.update_memory / crud_memory.update_memory
\* ------------------------------------------------------------------------
UpdIds == 1..Len(upds)

\* MemoryUpdate: content and tags are optional.  An absent content is None,
\* an absent list of tags the empty set, a given one the set holding it.
UpdateContents == {None, "c5"}
UpdateTags == {{}, {<<"t1">>}}

\* crud_memory.update_memory, lines 72-85
UpdateCheck(u, id) ==
    IF get_memory_by_id(id) = {} THEN "RecordNotFoundError"
    ELSE IF RowOwner(id) # u THEN "DatabaseOperationError"
    ELSE "ok"

\* The row is written by an update that has not ended its transaction
UpdLocked(id) ==
    \E k \in UpdIds : upds[k].id = id /\ upds[k].pc \in {"flushed", "vectored"}

\* crud_memory.update_memory, lines 64-102: the checks and the flush of
\* the changed row, in the session of the request
UpdateRelational(u, id, content, tags) ==
    /\ Len(upds) < MaxUpds
    /\ ~UpdLocked(id)
    /\ upds' = Append(upds, [user |-> u, id |-> id, content |-> content, tags |-> tags,
                             vec |-> "none",
                             pc |-> IF UpdateCheck(u, id) = "ok" THEN "flushed"
                                    ELSE UpdateCheck(u, id)])
    /\ UNCHANGED <<adminVars, workerVars, memRows, points, nextId, storeVars, contextVars, authVars>>

\* lines 88-91: the attributes that are given replace those of the row
UpdatedRow(row, content, tags) ==
    [row EXCEPT !.content = IF content = None THEN @ ELSE content,
                !.tags = IF tags = {} THEN @ ELSE CHOOSE x \in tags : TRUE]

\* The point of the memory after a successful re-embedding: the payload and
\* the vector of the updated row
PointsAfterUpdate(k) ==
    {p \in points : p.id # upds[k].id}
      \cup {UpdatedRow(r, upds[k].content, upds[k].tags) : r \in get_memory_by_id(upds[k].id)}

\* MemoryManager.update_memory after the relational update: re-embed and
\* upsert the point; a failure is logged and the update goes on
UpdateVector(k) ==
    /\ upds[k].pc = "flushed"
    /\ \E ok \in BOOLEAN :
        /\ points' = IF ok THEN PointsAfterUpdate(k) ELSE points
        /\ upds' = [upds EXCEPT ![k].pc = "vectored",
                                ![k].vec = IF ok THEN "ok" ELSE "failed"]
    /\ UNCHANGED <<adminVars, workerVars, memRows, nextId, storeVars, contextVars, authVars>>

\* A commit that leaves the row as it was
RowsAfterUpdateKept(k) == memRows

\* The table once the transaction of update k is committed
RowsAfterUpdate(k) ==
    (memRows \ get_memory_by_id(upds[k].id))
      \cup {UpdatedRow(r, upds[k].content, upds[k].tags) : r \in get_memory_by_id(upds[k].id)}

\* routers.memory.update_memory, lines 280-289, and the commit of
\* get_async_db once the handler has returned
UpdateCommit(k) ==
    /\ upds[k].pc = "vectored"
    /\ \E ok \in BOOLEAN :
        IF ok
        THEN /\ memRows' = RowsAfterUpdate(k)
             /\ upds' = [upds EXCEPT ![k].pc = "done"]
        ELSE /\ memRows' = memRows
             /\ upds' = [upds EXCEPT ![k].pc = "failed_db"]
    /\ UNCHANGED <<adminVars, workerVars, points, nextId, storeVars, contextVars, authVars>>

NextUpdate ==
    \/ \E u \in Users : StoreUpsert(u, <<"c2", <<"t">>>>)
    \/ \E s \in StoreIds : StoreCommit(s)
    \/ \E u \in Users, id \in 1..MaxMems, content \in UpdateContents, tags \in UpdateTags :
          UpdateRelational(u, id, content, tags)
    \/ \E k \in UpdIds : UpdateVector(k)
    \/ \E k \in UpdIds : UpdateCommit(k)

SpecUpdate == Init /\ [][NextUpdate]_vars

\* ------------------------------------------------------------------------
\* core.context: the ContextVar _current_user_id
\* ------------------------------------------------------------------------
OpIds == 1..Len(ops)

\* One variable shared by every task
ContextOfShared(k) == 0

\* The context a task reads and writes: asyncio runs every task in its own
\* copy of the context it was created in.  Context 0 is that of the code
\* that creates the tasks.
ContextOf(k) == k

\* get_current_user_id, lines 17-19, called in task k
get_current_user_id(k) == ctxval[ContextOf(k)]

\* The task is created and runs set_current_user_id(u), lines 12-14
OpStart(u) ==
    /\ Len(ops) < MaxOps
    /\ LET k == Len(ops) + 1
           copied == [ctxval EXCEPT ![k] = ctxval[0]]
       IN ctxval' = [copied EXCEPT ![ContextOf(k)] = u]
    /\ ops' = Append(ops, [user |-> u, gets |-> <<>>, frames |-> <<>>, exc |-> FALSE])
    /\ UNCHANGED <<adminVars, workerVars, memRows, points, nextId, storeVars, upds, mcpCalls, authVars>>

\* The task resumes and calls get_current_user_id
OpGet(k) ==
    /\ Len(ops[k].gets) < MaxGets
    /\ ops' = [ops EXCEPT ![k].gets = Append(@, get_current_user_id(k))]
    /\ UNCHANGED <<adminVars, workerVars, memRows, points, nextId, storeVars, upds, ctxval, mcpCalls,
                   authVars>>

\* user_context(v), line 25: token = _current_user_id.set(v); the token
\* holds the value the variable had
Enter(k, v) ==
    /\ Len(ops[k].frames) < MaxDepth
    /\ ops' = [ops EXCEPT ![k].frames =
                  Append(@, [user_id |-> v, token |-> ctxval[ContextOf(k)]])]
    /\ ctxval' = [ctxval EXCEPT ![ContextOf(k)] = v]
    /\ UNCHANGED <<adminVars, workerVars, memRows, points, nextId, storeVars, upds, mcpCalls, authVars>>

\* A reset that clears the variable
ResetValueDefault(frame) == None

\* _current_user_id.reset(token): the value the token holds
ResetValue(frame) == frame.token

\* user_context, lines 26-29: the block ends, normally or by an exception
\* (raised), and the finally clause resets the variable
Exit(k, raised) ==
    /\ ops[k].frames # <<>>
    /\ ctxval' = [ctxval EXCEPT ![ContextOf(k)] =
                     ResetValue(ops[k].frames[Len(ops[k].frames)])]
    /\ ops' = [ops EXCEPT ![k].frames = SubSeq(@, 1, Len(@) - 1),
                          ![k].exc = raised]
    /\ UNCHANGED <<adminVars, workerVars, memRows, points, nextId, storeVars, upds, mcpCalls, authVars>>

NextContext ==
    \/ \E u \in Users : OpStart(u)
    \/ \E k \in OpIds : OpGet(k)
    \/ \E k \in OpIds, v \in Users : Enter(k, v)
    \/ \E k \in OpIds, raised \in BOOLEAN : Exit(k, raised)

SpecContext == Init /\ [][NextContext]_vars

\* ------------------------------------------------------------------------
\* utils.mcp_context.get_user_id_from_context
\* ------------------------------------------------------------------------
McpIds == 1..Len(mcpCalls)

\* A tool call: whether a Context is passed, whether get_http_request
\* yields a request, and the user on request.state (None when absent)
McpRequests ==
    {[ctx |-> c, request |-> r, user |-> u] :
        c \in BOOLEAN, r \in BOOLEAN, u \in Users \cup {None}}

Pending == [error |-> "pending", message |-> "", id |-> None]

AuthenticationError(msg) == [error |-> "AuthenticationError", message |-> msg, id |-> None]

\* lines 14-48
get_user_id_from_context(req) ==
    IF ~req.ctx THEN AuthenticationError("No context provided to extract user information")
    ELSE IF ~req.request THEN AuthenticationError("No HTTP request found in context")
    ELSE IF req.user = None THEN AuthenticationError("No authenticated user found in request")
    ELSE [error |-> "", message |-> "", id |-> req.user]

\* One request slot shared by the calls in flight: that of the latest
RequestOfLatest(i) == mcpCalls[Len(mcpCalls)].req

\* The ctx argument of call i and the request get_http_request gives it:
\* those of the call itself
RequestOf(i) == mcpCalls[i].req

\* A tool call arrives with its request
McpBegin(req) ==
    /\ Len(mcpCalls) < MaxCalls
    /\ mcpCalls' = Append(mcpCalls, [req |-> req, out |-> Pending])
    /\ UNCHANGED <<adminVars, workerVars, memRows, points, nextId, storeVars, upds, ctxval, ops,
                   authVars>>

\* The tool resolves its user
McpResolve(i) ==
    /\ mcpCalls[i].out = Pending
    /\ mcpCalls' = [mcpCalls EXCEPT ![i].out = get_user_id_from_context(RequestOf(i))]
    /\ UNCHANGED <<adminVars, workerVars, memRows, points, nextId, storeVars, upds, ctxval, ops,
                   authVars>>

NextMcp ==
    \/ \E req \in McpRequests : McpBegin(req)
    \/ \E i \in McpIds : McpResolve(i)

SpecMcp == Init /\ [][NextMcp]_vars

\* ------------------------------------------------------------------------
\* API keys: routers.auth, crud_user, MCPPathAuthMiddleware, AuthCache
\* ------------------------------------------------------------------------
Keys == 1..MaxKeys

\* routers.auth.create_api_key / crud_user.create_api_key: a fresh key
\* replaces the key of the user
CreateApiKey(u) ==
    /\ nextKey <= MaxKeys
    /\ apiKeys' = [apiKeys EXCEPT ![u] = nextKey]
    /\ nextKey' = nextKey + 1
    /\ UNCHANGED <<adminVars, workerVars, memRows, points, nextId, storeVars, upds, contextVars,
                   authCache, revokes, authReqs>>

\* The cache after the revocation of key k: revoke_api_key of routers.auth
\* and of crud_user write the users row only
CacheAfterRevoke(k) == authCache

\* routers.auth.revoke_api_key, lines 179-193, crud_user.revoke_api_key,
\* lines 90-100, and the commit of the request's session
RevokeApiKey(u) ==
    /\ apiKeys[u] # 0
    /\ apiKeys' = [apiKeys EXCEPT ![u] = 0]
    /\ authCache' = CacheAfterRevoke(apiKeys[u])
    /\ revokes' = revokes \cup {apiKeys[u]}
    /\ UNCHANGED <<adminVars, workerVars, memRows, points, nextId, storeVars, upds, contextVars,
                   nextKey, authReqs>>

\* crud_user.get_user_by_api_key: the user whose row holds the key
get_user_by_api_key(k) ==
    IF \E u \in Users : apiKeys[u] = k
    THEN CHOOSE u \in Users : apiKeys[u] = k
    ELSE None

\* MCPPathAuthMiddleware._get_user_by_api_key_cached, lines 37-78: the
\* cached user on a hit, else the user of the database
get_user_by_api_key_cached(k) ==
    IF authCache[k] # None THEN authCache[k] ELSE get_user_by_api_key(k)

\* MCPPathAuthMiddleware.__call__, lines 185-220, for a request that
\* presents key k: user is the user it is authenticated as, None when it
\* is answered with InvalidAPIKeyError
MiddlewareAuth(k) ==
    /\ Len(authReqs) < MaxAuthReqs
    /\ authReqs' = Append(authReqs, [key |-> k, user |-> get_user_by_api_key_cached(k)])
    /\ authCache' = [authCache EXCEPT ![k] = get_user_by_api_key_cached(k)]
    /\ UNCHANGED <<adminVars, workerVars, memRows, points, nextId, storeVars, upds, contextVars,
                   apiKeys, nextKey, revokes>>

\* The entry written by setex with API_KEY_CACHE_TTL expires
CacheExpire(k) ==
    /\ authCache[k] # None
    /\ authCache' = [authCache EXCEPT ![k] = None]
    /\ UNCHANGED <<adminVars, workerVars, memRows, points, nextId, storeVars, upds, contextVars,
                   apiKeys, nextKey, revokes, authReqs>>

NextAuth ==
    \/ \E u \in Users : CreateApiKey(u)
    \/ \E u \in Users : RevokeApiKey(u)
    \/ \E k \in Keys : MiddlewareAuth(k)
    \/ \E k \in Keys : CacheExpire(k)

SpecAuth == Init /\ [][NextAuth]_vars

\* ------------------------------------------------------------------------
\* DELETE /auth/me: routers.auth.delete_account and
\* crud_user.delete_user_and_all_data
\* ------------------------------------------------------------------------
PurgeIds == 1..Len(purges)

\* crud_memory.delete_all_user_memories: the rows with user_id = u
RowsOfUser(u) == {r \in memRows : r.user = u}

\* VectorStore.delete_all_user_memories: the points whose payload user_id
\* is u
PointsOfUser(u) == {p \in points : p.user = u}

\* routers.auth.delete_account lines 203-208 and crud_user lines 126-138:
\* the confirmation must be "DELETE"; then the bulk DELETE of the user's
\* memories runs in the session of the request and its row count goes to
\* stats["memories_deleted"]
DeleteAllRelational(u) ==
    /\ Len(purges) < MaxPurges
    /\ \A d \in PurgeIds : purges[d].user = u => purges[d].pc # "done"
    /\ \E confirm \in BOOLEAN :
         purges' = Append(purges,
                     [user |-> u,
                      pc |-> IF confirm THEN "memories" ELSE "rejected",
                      vec |-> "none",
                      stats |-> [memories_deleted |->
                                     IF confirm THEN Cardinality(RowsOfUser(u)) ELSE 0,
                                 vector_memories_deleted |-> 0]])
    /\ UNCHANGED <<workerVars, memRows, points, nextId, storeVars, upds, contextVars,
                   authVars, collection, idxCalls>>

\* A cleanup that gives up when the vector side fails
PurgeAfterVectorRaises(ok) == IF ok THEN "vector_done" ELSE "failed"

\* crud_user lines 140-146: except Exception: pass -- the cleanup goes on
\* whether or not the vector bulk delete succeeded
PurgeAfterVector(ok) == "vector_done"

\* crud_user lines 140-146: VectorStore().delete_all_user_memories(user.id);
\* its count goes to stats["vector_memories_deleted"], which stays 0 when
\* the call raises
DeleteAllVector(d) ==
    /\ purges[d].pc = "memories"
    /\ \E ok \in BOOLEAN :
        /\ points' = IF ok THEN points \ PointsOfUser(purges[d].user) ELSE points
        /\ purges' = [purges EXCEPT
              ![d].pc = PurgeAfterVector(ok),
              ![d].vec = IF ok THEN "ok" ELSE "failed",
              ![d].stats.vector_memories_deleted =
                  IF ok THEN Cardinality(PointsOfUser(purges[d].user)) ELSE 0]
    /\ UNCHANGED <<workerVars, memRows, nextId, storeVars, upds, contextVars,
                   authVars, collection, idxCalls>>

\* crud_user lines 148-168 and routers.auth lines 213-226: the messages,
\* the profile and the user row are deleted, then the session is
\* committed; a failure rolls the relational deletes back (HTTP 500)
DeleteAllCommit(d) ==
    /\ purges[d].pc = "vector_done"
    /\ \E ok \in BOOLEAN :
        IF ok
        THEN /\ memRows' = memRows \ RowsOfUser(purges[d].user)
             /\ messages' = [i \in DOMAIN messages |->
                               IF messages[i].user = purges[d].user
                                  /\ messages[i].state = "committed"
                               THEN [messages[i] EXCEPT !.state = "deleted"]
                               ELSE messages[i]]
             /\ profile' = [profile EXCEPT ![purges[d].user] = NoProfile]
             /\ apiKeys' = [apiKeys EXCEPT ![purges[d].user] = 0]
             /\ purges' = [purges EXCEPT ![d].pc = "done"]
        ELSE /\ purges' = [purges EXCEPT ![d].pc = "failed_commit"]
             /\ UNCHANGED <<memRows, messages, profile, apiKeys>>
    /\ UNCHANGED <<reqs, tasks, points, nextId, storeVars, upds, contextVars,
                   nextKey, authCache, revokes, authReqs, collection, idxCalls>>

\* Memories are stored through the memory tools and accounts are deleted
NextPurge ==
    \/ \E u \in Users, in \in {<<"c1", <<>>>>, <<"c3", <<>>>>} : StoreUpsert(u, in)
    \/ \E s \in StoreIds : StoreCommit(s)
    \/ \E u \in Users : DeleteAllRelational(u)
    \/ \E d \in PurgeIds : DeleteAllVector(d)
    \/ \E d \in PurgeIds : DeleteAllCommit(d)

SpecPurge == Init /\ [][NextPurge]_vars

\* ------------------------------------------------------------------------
\* The memory operations next to the profile pipeline of one user
\* ------------------------------------------------------------------------
\* One message of u1 goes through the profile pipeline while u1 stores,
\* searches, updates and removes a memory
NextFrame ==
    \/ Len(messages) < MaxFrameCalls /\ RecordMessage("u1")
    \/ \E m \in MsgIds : RecordCommit(m)
    \/ \E t \in TaskIds : TaskSynthesize(t)
    \/ \E t \in TaskIds : TaskSelectProfile(t)
    \/ \E t \in TaskIds : TaskCommitProfile(t)
    \/ \E t \in TaskIds : TaskStoreMemories(t)
    \/ \E t \in TaskIds : TaskStoreVectors(t)
    \/ \E t \in TaskIds : TaskMark(t)
    \/ Len(stores) < MaxFrameCalls /\ StoreUpsert("u1", <<"c2", <<>>>>)
    \/ \E s \in StoreIds : StoreCommit(s)
    \/ SearchRelated("u1", "c1")
    \/ Len(dels) < MaxFrameCalls /\ \E id \in 1..MaxMems : DeleteRelational("u1", id)
    \/ \E d \in DelIds : DeleteVector(d)
    \/ \E d \in DelIds : DeleteCommit(d)
    \/ Len(upds) < MaxFrameCalls
         /\ \E id \in 1..MaxMems : UpdateRelational("u1", id, "c5", {})
    \/ \E k \in UpdIds : UpdateVector(k)
    \/ \E k \in UpdIds : UpdateCommit(k)

SpecFrame == Init /\ [][NextFrame]_vars

\* ------------------------------------------------------------------------
\* utils.vector_store: VectorStore, SyncVectorStore, and the collection
\* set-up of MemoryManager.__init__
\* ------------------------------------------------------------------------
IdxIds == 1..Len(idxCalls)

\* The operations that reach Qdrant or the embedding service, by class
IndexOps ==
    {<<"VectorStore", "ensure">>, <<"VectorStore", "store_memory">>,
     <<"VectorStore", "search_memories">>, <<"VectorStore", "retrieve_vectors">>,
     <<"SyncVectorStore", "ensure">>, <<"SyncVectorStore", "store_memory">>,
     <<"SyncVectorStore", "store_memories_batch">>,
     <<"SyncVectorStore", "search_memories">>,
     <<"MemoryManager", "init">>}

\* The first underlying call of an operation.  retrieve_vectors (lines
\* 176-177) and store_memories_batch (lines 325-326) return at once for an
\* empty argument; retrieve_vectors does not ensure the collection.
FirstStep(op, empty) ==
    IF op = "retrieve_vectors" THEN (IF empty THEN "done" ELSE "client")
    ELSE IF op = "store_memories_batch" /\ empty THEN "done"
    ELSE "check"

\* What follows _ensure_collection_exists in the operation
AfterEnsure(op) == IF op \in {"ensure", "init"} THEN "done" ELSE "embed"

\* An index that logs a failed write or read and returns
SurfacedLogged(cls, op, step) ==
    IF step = "client" THEN "returned"
    ELSE IF op = "search_memories" THEN "MemorySearchError"
    ELSE "QdrantServiceError"

\* How a failure of an underlying call leaves the operation.  Every call
\* of VectorStore and SyncVectorStore sits inside try/except Exception that
\* raises MemorySearchError (search_memories, lines 153-160 and 392-399) or
\* QdrantServiceError (all others); MemoryManager.__init__ (lines 61-70)
\* has no handler, so the client's exception leaves it as it is.
Surfaced(cls, op, step) ==
    IF cls = "MemoryManager" THEN "ClientException"
    ELSE IF op = "search_memories" THEN "MemorySearchError"
    ELSE "QdrantServiceError"

Failed(i, step, conflict) ==
    [idxCalls EXCEPT ![i].pc = "done", ![i].failed = TRUE,
                     ![i].conflict = conflict,
                     ![i].outcome = Surfaced(idxCalls[i].cls, idxCalls[i].op, step)]

Advanced(i, pc) ==
    [idxCalls EXCEPT ![i].pc = pc,
                     ![i].outcome = IF pc = "done" THEN "returned" ELSE "running"]

\* The operation is called
IndexBegin(c, empty) ==
    /\ Len(idxCalls) < MaxIdxCalls
    /\ empty => c[2] \in {"retrieve_vectors", "store_memories_batch"}
    /\ idxCalls' = Append(idxCalls,
                      [cls |-> c[1], op |-> c[2], pc |-> FirstStep(c[2], empty),
                       failed |-> FALSE, conflict |-> FALSE,
                       outcome |-> IF FirstStep(c[2], empty) = "done"
                                   THEN "returned" ELSE "running"])
    /\ UNCHANGED <<workerVars, memRows, points, nextId, storeVars, upds, contextVars,
                   authVars, purges, collection>>

\* _ensure_collection_exists, lines 63 and 257: client.collection_exists;
\* MemoryManager.__init__, line 62: client.get_collections
IndexCheck(i) ==
    /\ idxCalls[i].pc = "check"
    /\ \E fail \in BOOLEAN :
         idxCalls' = IF fail THEN Failed(i, "check", FALSE)
                     ELSE IF collection THEN Advanced(i, AfterEnsure(idxCalls[i].op))
                     ELSE Advanced(i, "create")
    /\ UNCHANGED <<workerVars, memRows, points, nextId, storeVars, upds, contextVars,
                   authVars, purges, collection>>

\* lines 65-71, 259-265 and memory_manager 64-70: client.create_collection,
\* reached when the check saw no collection.  Qdrant refuses to create a
\* collection whose name is taken.
IndexCreate(i) ==
    /\ idxCalls[i].pc = "create"
    /\ IF collection
       THEN /\ idxCalls' = Failed(i, "create", TRUE)
            /\ collection' = collection
       ELSE \E fail \in BOOLEAN :
              /\ idxCalls' = IF fail THEN Failed(i, "create", FALSE)
                             ELSE Advanced(i, AfterEnsure(idxCalls[i].op))
              /\ collection' = ~fail
    /\ UNCHANGED <<workerVars, memRows, points, nextId, storeVars, upds, contextVars,
                   authVars, purges>>

\* embedding_service.generate_embedding / generate_embedding_sync
IndexEmbed(i) ==
    /\ idxCalls[i].pc = "embed"
    /\ \E fail \in BOOLEAN :
         idxCalls' = IF fail THEN Failed(i, "embed", FALSE) ELSE Advanced(i, "client")
    /\ UNCHANGED <<workerVars, memRows, points, nextId, storeVars, upds, contextVars,
                   authVars, purges, collection>>

\* client.upsert (store_memory, store_memories_batch), client.search
\* (search_memories), client.retrieve (retrieve_vectors)
IndexClient(i) ==
    /\ idxCalls[i].pc = "client"
    /\ \E fail \in BOOLEAN :
         /\ idxCalls' = IF fail THEN Failed(i, "client", FALSE) ELSE Advanced(i, "done")
         /\ points' = IF ~fail /\ idxCalls[i].op \in {"store_memory", "store_memories_batch"}
                      THEN points \cup {PointOf(i, "u1", "c1", <<>>)}
                      ELSE points
    /\ UNCHANGED <<workerVars, memRows, nextId, storeVars, upds, contextVars,
                   authVars, purges, collection>>

NextIndex ==
    \/ \E c \in IndexOps, empty \in BOOLEAN : IndexBegin(c, empty)
    \/ \E i \in IdxIds : IndexCheck(i)
    \/ \E i \in IdxIds : IndexCreate(i)
    \/ \E i \in IdxIds : IndexEmbed(i)
    \/ \E i \in IdxIds : IndexClient(i)

SpecIndex == Init /\ [][NextIndex]_vars

\* ------------------------------------------------------------------------
\* update_profile_background called with arguments of the caller's choice
\* ------------------------------------------------------------------------
\* tasks.py lines 165-171: the task takes the user id and the list of
\* messages as arguments; a producer other than record_message_and_get_profile
\* may send any user with any message ids
InvokeTask(u, batch) ==
    /\ Len(tasks) < MaxTasks
    /\ tasks' = Enqueue(tasks, NewTask(u, batch, "", {}))
    /\ UNCHANGED <<adminVars, messages, reqs, profile, memRows, points, nextId, storeVars,
                   upds, contextVars, authVars>>

NextInvoke ==
    \/ Len(messages) < MaxFrameCalls /\ \E u \in Users : RecordMessage(u)
    \/ \E m \in MsgIds : RecordCommit(m)
    \/ \E u \in Users, m \in MsgIds : InvokeTask(u, <<m>>)
    \/ \E t \in TaskIds : TaskSynthesize(t)
    \/ \E t \in TaskIds : TaskSelectProfile(t)
    \/ \E t \in TaskIds : TaskCommitProfile(t)
    \/ \E t \in TaskIds : TaskStoreMemories(t)
    \/ \E t \in TaskIds : TaskStoreVectors(t)
    \/ \E t \in TaskIds : TaskMark(t)

SpecInvoke == Init /\ [][NextInvoke]_vars

Next == NextWorker \/ NextStore \/ NextDelete \/ NextEntry \/ NextOwner \/ NextUpdate
          \/ NextContext \/ NextMcp \/ NextAuth \/ NextPurge \/ NextFrame
          \/ NextIndex \/ NextInvoke

Spec == Init /\ [][Next]_vars


\* ------------------------------------------------------------------------
\* Properties of the consolidation pipeline (SpecWorker)
\* ------------------------------------------------------------------------
Running(t) == tasks[t].pc \in {"select", "profile", "memories", "vectors", "mark"}

ReachedPersist(t) == tasks[t].pc \notin {"queued", "aborted"}

ProfileWritten(t) ==
    tasks[t].pc \in {"memories", "vectors", "mark", "done", "failed_store", "failed_mark"}

RowsWritten(t) == tasks[t].memCommit = "ok" /\ tasks[t].memData # <<>>

Marked(t) == tasks[t].pc = "done" /\ tasks[t].batch # <<>>

Finished(t) == tasks[t].pc \in {"done", "failed_profile", "failed_store", "failed_mark"}

\* C1: at most one consolidation run per owner is active at any time; of two
\* simultaneous triggers for one owner only one executes to PERSIST, the
\* other is discarded.
C1_OneActiveRunPerOwner ==
    \A t1, t2 \in TaskIds :
        (t1 # t2 /\ tasks[t1].user = tasks[t2].user /\ Running(t1)) => ~Running(t2)

\* C2: a message is marked processed only by a run whose profile update and
\* surviving memory rows are durably committed.
C2_ProcessedOnlyWithEffects ==
    \A t \in TaskIds :
        (Marked(t) /\ \E m \in SeqToSet(tasks[t].batch) : messages[m].processed)
            => /\ ProfileWritten(t)
               /\ tasks[t].memCommit # "failed"
               /\ RowsOf(tasks[t].memData, tasks[t].user) \subseteq memRows

\* C3: each message is in the batch of at most one run that reaches PERSIST.
C3_MessageInAtMostOneRun ==
    \A m \in MsgIds :
        Cardinality({t \in TaskIds : m \in SeqToSet(tasks[t].batch) /\ ReachedPersist(t)}) <= 1

\* C4: PERSIST is all-or-nothing: a run that has ended after the synthesis
\* has either committed the profile, its memory rows and the processed
\* flags, or none of the three.
C4_PersistAllOrNothing ==
    \A t \in TaskIds :
        Finished(t) =>
            \/ /\ ProfileWritten(t)
               /\ tasks[t].memCommit # "failed"
               /\ Marked(t)
            \/ /\ ~ProfileWritten(t)
               /\ ~RowsWritten(t)
               /\ ~Marked(t)

\* C5: a run that fails before PERSIST (the synthesis call raises or the
\* answer lacks a field) changes no message, no profile, no memory row and
\* no vector point.
C5_AbortChangesNothing ==
    [][\A t \in TaskIds :
          (tasks[t].pc = "queued" /\ tasks'[t].pc = "aborted")
              => /\ messages' = messages
                 /\ profile' = profile
                 /\ memRows' = memRows
                 /\ points' = points]_vars

C5_Witness ==
    \E t \in TaskIds :
        /\ tasks[t].pc = "aborted"
        /\ Len(tasks[t].batch) >= 2
        /\ \A m \in SeqToSet(tasks[t].batch) :
              messages[m].state = "committed" /\ ~messages[m].processed
        /\ ~profile[tasks[t].user].exists

\* The candidates that survive deduplication, by position: not blank after
\* trimming and, unless their duplicate check raised, without a point of the
\* owner at or above the dedup threshold.
SurvivorIdx(cands, u, raised) ==
    {i \in 1..Len(cands) :
        /\ Strip(cands[i]) # ""
        /\ \/ i \in raised
           \/ ~\E p \in points :
                 /\ p.user = u
                 /\ CosGE(Embed(Strip(cands[i])), Embed(p.content), DedupThreshold)}

SurvivorRows(cands, u, raised, first) ==
    LET idx == SortedSeq(SurvivorIdx(cands, u, raised))
    IN {[id |-> first + k - 1, user |-> u, content |-> Strip(cands[idx[k]]),
         tags |-> <<"ai_extracted">>] : k \in 1..Len(idx)}

Appended == Len(messages') = Len(messages) + 1

\* The user of the message appended by the step
AppendedUser == messages'[Len(messages')].user

\* The number of unprocessed messages of user u that the call counts: the
\* committed ones and the one it has appended
CountedUnprocessed(u) ==
    Cardinality({i \in MsgIds : /\ messages[i].user = u
                                /\ ~messages[i].processed
                                /\ messages[i].state = "committed"}) + 1

\* The step has sent a task to the queue
Triggered == Len(tasks') = Len(tasks) + 1

\* C13 as stated: a run is triggered if and only if the owner has no
\* profile or the owner's count of unprocessed messages is >= batchSize.
C13_TriggerIffColdOrBatch ==
    [][Appended =>
          (Triggered <=> \/ ~profile[AppendedUser].exists
                         \/ CountedUnprocessed(AppendedUser) >= LLM_PROCESS_BATCH_SIZE)]_vars

\* C13 amended: a run is triggered if and only if the owner has no profile,
\* or the profile is empty (blank summary and blank or "{}" metadata), or
\* the owner's count of unprocessed messages is >= batchSize; otherwise no
\* task is enqueued.
C13_TriggerIffColdEmptyOrBatch ==
    [][Appended =>
          /\ Triggered <=>
                \/ ~profile[AppendedUser].exists
                \/ /\ profile[AppendedUser].summary = {}
                   /\ profile[AppendedUser].metadata \in {"", "{}"}
                \/ CountedUnprocessed(AppendedUser) >= LLM_PROCESS_BATCH_SIZE
          /\ ~Triggered => tasks' = tasks]_vars

C13_Witness ==
    /\ \E t \in TaskIds :
          /\ tasks[t].pc = "queued"
          /\ tasks[t].exMeta = "{}"
          /\ tasks[t].exSummary = {}
          /\ profile[tasks[t].user].exists
          /\ Len(tasks[t].batch) < LLM_PROCESS_BATCH_SIZE
          /\ \E t0 \in TaskIds : tasks[t0].user = tasks[t].user /\ tasks[t0].pc = "done"

\* C14: with batchSize = 3 and an existing non-empty profile, a call that
\* counts one or two unprocessed messages enqueues nothing, and the call
\* that counts three, its own message included, enqueues a run.
C14_ThirdMessageTriggers ==
    [][(/\ Appended
        /\ profile[AppendedUser].exists
        /\ profile[AppendedUser].summary # {})
          => /\ CountedUnprocessed(AppendedUser) \in {1, 2} => tasks' = tasks
             /\ CountedUnprocessed(AppendedUser) = 3
                   => /\ Triggered
                      /\ Len(tasks'[Len(tasks')].batch) = 3
                      /\ Len(messages') \in SeqToSet(tasks'[Len(tasks')].batch)]_vars

C14_Witness ==
    /\ Len(messages) = 3
    /\ \A m \in MsgIds : messages[m].user = "u1"
    /\ profile["u1"].exists /\ profile["u1"].summary # {}
    /\ messages[1].state = "committed" /\ messages[2].state = "committed"
    /\ Len(tasks) = 1
    /\ tasks[1].batch = <<1, 2, 3>>

\* C15: for an owner without a profile row the first appended message
\* triggers a run at once, and the batch of the run holds that message.
C15_ColdStartTriggers ==
    [][(Appended /\ ~profile[AppendedUser].exists)
          => /\ Triggered
             /\ tasks'[Len(tasks')].user = AppendedUser
             /\ Len(messages') \in SeqToSet(tasks'[Len(tasks')].batch)]_vars

C15_Witness ==
    /\ Len(messages) = 1
    /\ ~profile[messages[1].user].exists
    /\ Len(tasks) = 1
    /\ tasks[1].user = messages[1].user
    /\ tasks[1].batch = <<1>>
    /\ tasks[1].pc = "queued"

\* ------------------------------------------------------------------------
\* Properties of deduplication, retries and the two stores (SpecWorker)
\* ------------------------------------------------------------------------
\* The text has a memory of user u in the index at or above the dedup
\* threshold
HasSimilar(content, u) ==
    \E p \in points :
        p.user = u /\ CosGE(Embed(content), Embed(p.content), DedupThreshold)

\* C16: an extracted candidate whose similarity to an existing memory of
\* the owner is >= the dedup threshold is skipped: it adds no Memory row
\* and is not handed to the vector store.
C16_SimilarIsSkipped ==
    [][\A t \in TaskIds :
          (tasks[t].pc = "memories" /\ tasks'[t].pc \in {"vectors", "mark"})
              => /\ \A k \in 1..Len(tasks'[t].memData) :
                       ~HasSimilar(tasks'[t].memData[k].content, tasks[t].user)
                 /\ \A r \in memRows' \ memRows : ~HasSimilar(r.content, r.user)]_vars

\* The messages of the batches of the aborted runs of user u that are
\* still there and unprocessed
LeftByAborted(u) ==
    {m \in MsgIds :
        /\ \E t \in TaskIds : /\ tasks[t].user = u
                              /\ tasks[t].pc = "aborted"
                              /\ m \in SeqToSet(tasks[t].batch)
        /\ messages[m].state = "committed"
        /\ ~messages[m].processed}

\* C18: an aborted run leaves the messages of its batch unprocessed, and
\* the next run triggered for the owner gets every one of them that is
\* still unprocessed, together with the message of the triggering call.
C18_AbortedBatchIsRetried ==
    [][/\ \A t \in TaskIds :
            (tasks[t].pc = "queued" /\ tasks'[t].pc = "aborted")
                => \A m \in SeqToSet(tasks[t].batch) :
                      messages'[m].processed = messages[m].processed
       /\ (Appended /\ Triggered)
            => /\ LeftByAborted(AppendedUser) \subseteq SeqToSet(tasks'[Len(tasks')].batch)
               /\ Len(messages') \in SeqToSet(tasks'[Len(tasks')].batch)]_vars

C18_Witness ==
    \E t1, t2 \in TaskIds :
        /\ t1 < t2
        /\ tasks[t1].user = tasks[t2].user
        /\ tasks[t1].pc = "aborted"
        /\ tasks[t2].pc = "queued"
        /\ SeqToSet(tasks[t1].batch) \subseteq SeqToSet(tasks[t2].batch)
        /\ Len(tasks[t2].batch) > Len(tasks[t1].batch)
        /\ \A m \in SeqToSet(tasks[t1].batch) :
              messages[m].state = "committed" /\ ~messages[m].processed

\* C19: once the run that committed them has ended, the Memory rows of a
\* run have a point in the vector index with the same id and the same user.
C19_RowsHavePoints ==
    \A t \in TaskIds :
        tasks[t].pc \in {"done", "failed_mark"}
            => \A r \in RowsOf(tasks[t].memData, tasks[t].user) \cap memRows :
                  \E p \in points : p.id = r.id /\ p.user = r.user

\* C20: there is at most one profile row per owner: the first successful
\* synthesis creates it, later ones update it, also when two runs of an
\* owner without a profile execute concurrently.
C20_OneProfileRowPerOwner ==
    \A u \in Users :
        /\ profile[u].rows <= 1
        /\ profile[u].exists <=> profile[u].rows = 1

\* Two runs of an owner found no row; one has inserted its row and the
\* other is at its INSERT
C20_Witness ==
    \E t1, t2 \in TaskIds :
        /\ t1 # t2
        /\ tasks[t1].user = tasks[t2].user
        /\ tasks[t1].pc = "profile"
        /\ ~tasks[t1].sawProfile
        /\ ProfileWritten(t2)
        /\ Len(tasks[t2].batch) = 1
        /\ profile[tasks[t1].user].rows = 1

\* ------------------------------------------------------------------------
\* Properties of the memory pipeline (SpecStore)
\* ------------------------------------------------------------------------
\* C7: after a store whose relational write failed, the vector index holds
\* no point with the id that store generated.
C7_NoPointAfterFailedStore ==
    \A s \in StoreIds :
        stores[s].pc = "failed_db" => ~\E p \in points : p.id = stores[s].id

\* C8: a search or a retrieval executed for a user returns only records
\* whose payload owner is that user.
C8_OwnerIsolation ==
    lastCall.status = "ok" => \A h \in lastCall.hits : h.user = lastCall.user

C8_Witness ==
    /\ lastCall.op = "search"
    /\ lastCall.status = "ok"
    /\ \E h \in lastCall.hits :
          \E p \in points : p.user # lastCall.user /\ p.content = h.content

\* The stores that had returned their id before the latest search and that
\* stored, for the searching user, the very text that is searched
StoredAndSearched ==
    {s \in StoreIds : /\ stores[s].pc = "done"
                      /\ stores[s].id \in lastCall.stored
                      /\ stores[s].user = lastCall.user
                      /\ stores[s].content = lastCall.query}

\* C9 as stated: after store(content, owner, tags) returned id, a search of
\* the owner with the same content returns a hit for id.
C9_StoredIsFound ==
    (lastCall.op = "search" /\ lastCall.status = "ok")
        => \A s \in StoredAndSearched : \E h \in lastCall.hits : h.id = stores[s].id

\* C9 amended: after store(content, owner, tags) returned id, the point of
\* id passes the owner filter and the lower threshold of a search of the
\* owner with the same content, scores above the upper threshold and is
\* therefore not among the hits returned.
C9_StoredIsAboveUpper ==
    (lastCall.op = "search" /\ lastCall.status = "ok")
        => \A s \in StoredAndSearched :
              /\ \E p \in lastCall.raw :
                    /\ p.id = stores[s].id
                    /\ p.user = lastCall.user
                    /\ CosGE(Embed(lastCall.query), Embed(p.content), score_threshold)
                    /\ CosGT(Embed(lastCall.query), Embed(p.content), upper_score_threshold)
              /\ ~\E h \in lastCall.hits : h.id = stores[s].id

C9_Witness ==
    /\ lastCall.op = "search"
    /\ lastCall.status = "ok"
    /\ StoredAndSearched # {}

\* C10: every hit of a search has score_threshold <= score <=
\* upper_score_threshold; a point found with a score above the upper
\* threshold is not returned, one with a score equal to it is.
C10_ThresholdFiltering ==
    (lastCall.op = "search" /\ lastCall.status = "ok")
        => LET q == Embed(lastCall.query)
           IN /\ \A h \in lastCall.hits :
                    /\ CosGE(q, Embed(h.content), score_threshold)
                    /\ ~CosGT(q, Embed(h.content), upper_score_threshold)
              /\ \A p \in lastCall.raw :
                    /\ CosGT(q, Embed(p.content), upper_score_threshold)
                          => p \notin lastCall.hits
                    /\ (/\ CosGE(q, Embed(p.content), upper_score_threshold)
                        /\ ~CosGT(q, Embed(p.content), upper_score_threshold))
                          => p \in lastCall.hits

C10_Witness ==
    /\ lastCall.op = "search"
    /\ lastCall.status = "ok"
    /\ \E h \in lastCall.hits :
          /\ CosGE(Embed(lastCall.query), Embed(h.content), upper_score_threshold)
          /\ ~CosGT(Embed(lastCall.query), Embed(h.content), upper_score_threshold)
    /\ \E p \in lastCall.raw \ lastCall.hits :
          CosGT(Embed(lastCall.query), Embed(p.content), upper_score_threshold)


\* ------------------------------------------------------------------------
\* Properties of the removal (SpecDelete)
\* ------------------------------------------------------------------------
\* The removals called by a user who is not the user of the row
NonOwnerDeletes == {d \in DelIds : dels[d].owner # None /\ dels[d].owner # dels[d].user}

\* C11: a removal called by a user who is not the owner of the memory fails
\* with an authorization error, and the row and its point stay as they are.
C11_NonOwnerGetsAuthorizationError ==
    \A d \in NonOwnerDeletes : dels[d].pc = "AuthorizationError"

\* The removals by the owner that had returned success before the latest
\* search
DeletedAndSearched ==
    {d \in DelIds : /\ dels[d].pc = "done"
                    /\ dels[d].owner = dels[d].user
                    /\ dels[d].id \in lastCall.deleted}

C21_AtMostThreeTags ==
    \A r \in memRows \cup points : Len(r.tags) <= 3

\* ------------------------------------------------------------------------
\* Properties of the user context (SpecContext, SpecMcp)
\* ------------------------------------------------------------------------
\* The id task k has set last: that of its innermost open user_context
\* block, else the one it passed to set_current_user_id
LastSetBy(k) ==
    IF ops[k].frames = <<>> THEN ops[k].user
    ELSE ops[k].frames[Len(ops[k].frames)].user_id

\* C22: whatever the interleaving of the tasks, every get_current_user_id
\* of a task returns the id that task has set, never the id of another
\* task.
C22_NoContextLeak ==
    [][\A k \in OpIds :
          Len(ops'[k].gets) > Len(ops[k].gets)
            => ops'[k].gets[Len(ops'[k].gets)] = LastSetBy(k)]_vars

\* Two tasks of different users are in flight: each has set its id and
\* read it back, task 1 twice
C22_Witness ==
    /\ Len(ops) = 2
    /\ ops[1].user # ops[2].user
    /\ ops[1].frames = <<>> /\ ops[2].frames = <<>>
    /\ ops[1].gets = <<ops[1].user, ops[1].user>>
    /\ ops[2].gets = <<ops[2].user>>
    /\ ctxval[ContextOf(1)] # ctxval[ContextOf(2)]

\* C23: user_context(v) makes v the current user id on entry and for every
\* read inside the block; when the block ends, normally or by an
\* exception, the current user id is again the one that was current before
\* the entry.
C23_UserContextRestores ==
    [][\A k \in OpIds :
          /\ Len(ops'[k].frames) = Len(ops[k].frames) + 1
               => /\ get_current_user_id(k)' = ops'[k].frames[Len(ops'[k].frames)].user_id
                  /\ ops'[k].frames[Len(ops'[k].frames)].token = get_current_user_id(k)
          /\ (Len(ops'[k].gets) > Len(ops[k].gets) /\ ops[k].frames # <<>>)
               => ops'[k].gets[Len(ops'[k].gets)] = ops[k].frames[Len(ops[k].frames)].user_id
          /\ Len(ops'[k].frames) = Len(ops[k].frames) - 1
               => /\ get_current_user_id(k)' = LastSetBy(k)'
                  /\ get_current_user_id(k)' = ops[k].frames[Len(ops[k].frames)].token]_vars

\* A task has read the id of another user inside a block and its own id
\* after the block was left by an exception
C23_Witness ==
    \E k \in OpIds :
        /\ ops[k].frames = <<>>
        /\ ops[k].exc
        /\ Len(ops[k].gets) = 2
        /\ ops[k].gets[1] # ops[k].user
        /\ ops[k].gets[2] = ops[k].user
        /\ get_current_user_id(k) = ops[k].user

\* C24: get_user_id_from_context returns the id of the user on the state
\* of the request of the call, and raises AuthenticationError, returning
\* no id, when no context is given, when there is no HTTP request and when
\* the request has no user; calls in flight together each get the user of
\* their own request.
C24_OwnRequestUser ==
    \A i \in McpIds :
        mcpCalls[i].out # Pending =>
            IF mcpCalls[i].req.ctx /\ mcpCalls[i].req.request /\ mcpCalls[i].req.user # None
            THEN /\ mcpCalls[i].out.error = ""
                 /\ mcpCalls[i].out.id = mcpCalls[i].req.user
            ELSE /\ mcpCalls[i].out.error = "AuthenticationError"
                 /\ mcpCalls[i].out.id = None

\* Two calls of different users are in flight together: the second is
\* answered with its own user while the first is not answered yet
C24_Witness ==
    /\ Len(mcpCalls) = 2
    /\ mcpCalls[1].out = Pending
    /\ mcpCalls[1].req.ctx /\ mcpCalls[1].req.request /\ mcpCalls[1].req.user \in Users
    /\ mcpCalls[2].out.id \in Users
    /\ mcpCalls[2].out.id = mcpCalls[2].req.user
    /\ mcpCalls[2].out.id # mcpCalls[1].req.user

\* A call without context, without request or without user was answered
C24_WitnessError ==
    \E i \in McpIds :
        /\ mcpCalls[i].out.error = "AuthenticationError"
        /\ mcpCalls[i].req.ctx /\ mcpCalls[i].req.request

\* ------------------------------------------------------------------------
\* Properties of the calls without owner (SpecOwner)
\* ------------------------------------------------------------------------
\* C25: store, search_related and process_context called without a
\* resolved owner are rejected before the embedding service, the vector
\* index or the relational store is used: nothing is embedded and both
\* stores are unchanged.
C25_NoOwnerRejected ==
    [][/\ (Len(stores') > Len(stores) /\ stores'[Len(stores')].user = None)
            => /\ stores'[Len(stores')].pc = "rejected"
               /\ ~stores'[Len(stores')].embedded
               /\ UNCHANGED <<messages, profile, tasks, memRows, points, nextId>>
       /\ (lastCall' # lastCall /\ lastCall'.user = None
             /\ lastCall'.op \in {"search", "process_context"})
            => /\ lastCall'.status = "rejected"
               /\ ~lastCall'.embedded
               /\ lastCall'.raw = {} /\ lastCall'.hits = {}
               /\ UNCHANGED <<messages, profile, tasks, memRows, points, nextId>>]_vars

\* A store and a process_context without owner were rejected while a point,
\* a row and a message exist
C25_Witness ==
    /\ \E s \in StoreIds : stores[s].pc = "rejected" /\ stores[s].user = None
    /\ lastCall.op = "process_context" /\ lastCall.status = "rejected"
    /\ points # {} /\ memRows # {} /\ messages # <<>>

\* ------------------------------------------------------------------------
\* Properties of the API keys (SpecAuth)
\* ------------------------------------------------------------------------
\* C26: once the revocation of a key has returned success, no request that
\* presents the key is authenticated by the middleware.
C26_RevokedKeyRejected ==
    [][Len(authReqs') > Len(authReqs)
         => (authReqs'[Len(authReqs')].key \in revokes
               => authReqs'[Len(authReqs')].user = None)]_vars

\* ------------------------------------------------------------------------
\* Properties of the batch (SpecWorker)
\* ------------------------------------------------------------------------
\* C27: the step that marks the batch of a run changes is_processed of the
\* committed messages of the batch and of no other message: a message of
\* the same user appended after the fetch and the messages of the other
\* users keep their flag.
C27_MarkFlipsBatchOnly ==
    [][\A t \in TaskIds :
          (tasks[t].pc = "mark" /\ tasks'[t].pc = "done")
            => \A i \in MsgIds :
                 IF i \in SeqToSet(tasks[t].batch) /\ messages[i].state = "committed"
                 THEN messages'[i].processed
                 ELSE messages'[i] = messages[i]]_vars

\* A run is done, its batch is processed; a later message of the same user
\* and a message of the other user are committed and unprocessed
C27_Witness ==
    \E t \in TaskIds, i, j \in MsgIds :
        /\ tasks[t].pc = "done"
        /\ tasks[t].batch # <<>>
        /\ \A m \in SeqToSet(tasks[t].batch) : messages[m].processed
        /\ i \notin SeqToSet(tasks[t].batch)
        /\ messages[i].user = tasks[t].user
        /\ messages[i].state = "committed" /\ ~messages[i].processed
        /\ messages[j].user # tasks[t].user
        /\ messages[j].state = "committed" /\ ~messages[j].processed

\* C28: the batch handed to a run holds all the messages of the user that
\* are unprocessed when it is fetched, oldest first, and the text passed to
\* the synthesizer has one part per message of the batch in that order.
C28_BatchOldestFirst ==
    [][/\ Len(tasks') > Len(tasks)
            => LET b == tasks'[Len(tasks')].batch
                   m == Len(messages')
               IN /\ \A x, y \in 1..Len(b) : x < y => b[x] < b[y]
                  /\ SeqToSet(b) =
                       {i \in 1..m : /\ messages'[i].user = tasks'[Len(tasks')].user
                                     /\ ~messages'[i].processed
                                     /\ (messages'[i].state = "committed" \/ i = m)}
       /\ \A t \in TaskIds :
            (tasks[t].pc = "queued" /\ tasks'[t].pc = "select")
              => /\ Len(tasks'[t].text) = Len(tasks[t].batch)
                 /\ \A x \in 1..Len(tasks[t].batch) :
                       tasks'[t].text[x].User = tasks[t].batch[x]]_vars

\* The synthesizer was called on a batch of two messages
C28_Witness ==
    \E t \in TaskIds :
        /\ tasks[t].pc = "select"
        /\ Len(tasks[t].batch) = 2
        /\ Len(tasks[t].text) = 2
        /\ tasks[t].text[1].User < tasks[t].text[2].User

\* C29: when the metadata returned by the synthesizer is not valid JSON the
\* run goes on with "{}" as metadata and with the summary and the memories
\* of the answer, and the profile it commits holds them.
C29_BadMetadataFallsBack ==
    [][\A t \in TaskIds :
          /\ (tasks[t].pc = "queued" /\ tasks'[t].pc # "queued"
                /\ tasks'[t].resp.raw = "bad")
               => /\ tasks'[t].pc = "select"
                  /\ tasks'[t].resp.metadata = "{}"
                  /\ \E r \in LLMResponses(t) :
                        /\ r.metadata = "bad"
                        /\ tasks'[t].resp.summary = r.summary
                        /\ tasks'[t].resp.memories = r.memories
          /\ (tasks[t].pc = "profile" /\ tasks'[t].pc \in {"memories", "mark"})
               => /\ profile'[tasks[t].user].metadata = tasks[t].resp.metadata
                  /\ profile'[tasks[t].user].metadata \in {"json", "{}"}
                  /\ profile'[tasks[t].user].summary = tasks[t].resp.summary
                  /\ tasks'[t].resp.memories = tasks[t].resp.memories]_vars

\* A run whose answer had invalid metadata is done: the profile holds "{}"
\* and the summary, the memory of the answer is a row and the batch is
\* processed
C29_Witness ==
    \E t \in TaskIds :
        /\ tasks[t].pc = "done"
        /\ profile[tasks[t].user].metadata = "{}"
        /\ profile[tasks[t].user].summary # {}
        /\ Len(tasks[t].memData) = 1
        /\ tasks[t].memData[1].content = "c1"
        /\ RowsOf(tasks[t].memData, tasks[t].user) \subseteq memRows
        /\ \A m \in SeqToSet(tasks[t].batch) : messages[m].processed

C31_DeleteAllAuthoritative ==
    [][\A d \in PurgeIds :
         /\ (purges[d].pc = "memories" /\ purges'[d].pc # "memories")
              => /\ purges'[d].pc = "vector_done"
                 /\ purges'[d].stats.memories_deleted = purges[d].stats.memories_deleted
                 /\ purges'[d].stats.vector_memories_deleted
                        = Cardinality(points) - Cardinality(points')
                 /\ purges'[d].vec = "failed"
                      => /\ purges'[d].stats.vector_memories_deleted = 0
                         /\ purges'[d].stats.memories_deleted > 0
                              => purges'[d].stats.vector_memories_deleted
                                     < purges'[d].stats.memories_deleted
         /\ (purges[d].pc = "vector_done" /\ purges'[d].pc = "done")
              => {r \in memRows' : r.user = purges[d].user} = {}]_vars

\* An account with a memory row and a point was deleted although the
\* vector bulk delete failed: the row is gone, the point is left, and the
\* counts read 1 and 0
C31_Witness ==
    \E d \in PurgeIds :
        /\ purges[d].pc = "done"
        /\ purges[d].vec = "failed"
        /\ purges[d].stats.memories_deleted = 1
        /\ purges[d].stats.vector_memories_deleted = 0
        /\ RowsOfUser(purges[d].user) = {}
        /\ PointsOfUser(purges[d].user) # {}

\* C32: in a consolidation run the vector points of the extracted memories
\* are written only after the commit of their Memory rows succeeded: a run
\* is at its vector step only with a successful commit and its rows in the
\* table, a run whose commit failed goes on without a vector step and no
\* point carries an id of its batch, and the vector step, failed or not,
\* leaves the committed rows as they are.
C32_VectorsAfterCommit ==
    [][/\ \A t \in TaskIds :
            /\ (tasks[t].pc = "vectors" /\ tasks'[t].pc # "vectors")
                 => /\ tasks[t].memCommit = "ok"
                    /\ RowsOf(tasks[t].memData, tasks[t].user) \subseteq memRows
                    /\ memRows' = memRows
            /\ (tasks[t].pc = "memories" /\ tasks'[t].memCommit = "failed")
                 => /\ tasks'[t].pc # "vectors"
                    /\ points' = points
            /\ tasks'[t].memCommit = "failed"
                 => \A i \in 1..Len(tasks'[t].memData), p \in points' :
                        p.id # tasks'[t].memData[i].memory_id
       /\ points' # points
            => \E t \in TaskIds : /\ tasks[t].pc = "vectors"
                                  /\ tasks[t].memCommit = "ok"
                                  /\ tasks'[t].vec = "ok"]_vars

\* One run committed a Memory row and then failed to write its point: the
\* row is still there and no point has its id
C32_Witness ==
    \E t \in TaskIds :
        /\ tasks[t].memCommit = "ok"
        /\ tasks[t].vec = "failed"
        /\ tasks[t].pc \in {"mark", "done"}
        /\ Len(tasks[t].memData) > 0
        /\ RowsOf(tasks[t].memData, tasks[t].user) \subseteq memRows
        /\ \A i \in 1..Len(tasks[t].memData), p \in points :
               p.id # tasks[t].memData[i].memory_id

C34_FailuresSurface ==
    \A i \in IdxIds :
        idxCalls[i].cls \in {"VectorStore", "SyncVectorStore"}
          => /\ idxCalls[i].failed
                  => /\ idxCalls[i].pc = "done"
                     /\ idxCalls[i].outcome \in {"QdrantServiceError", "MemorySearchError"}
             /\ idxCalls[i].outcome = "returned" => ~idxCalls[i].failed

\* A batch write of SyncVectorStore whose upsert failed and a search of
\* VectorStore whose embedding or search failed have both raised
C34_Witness ==
    \E i, j \in IdxIds :
        /\ idxCalls[i].op = "store_memories_batch" /\ idxCalls[i].failed
        /\ idxCalls[i].outcome = "QdrantServiceError"
        /\ idxCalls[j].cls = "VectorStore" /\ idxCalls[j].op = "search_memories"
        /\ idxCalls[j].failed /\ idxCalls[j].outcome = "MemorySearchError"

\* C35: ensureCollection is an idempotent create-if-absent: however many
\* callers run it, concurrently or not, none of them fails because the
\* collection already exists.
C35_EnsureNeverConflicts ==
    \A i \in IdxIds : ~idxCalls[i].conflict

\* C36: no lost profile update: a run never overwrites the profile with a
\* result computed from a snapshot older than the committed one, so the
\* summary a run commits (when the synthesizer returned one) still covers
\* every message that the committed summary covered.
C36_NoLostProfileUpdate ==
    [][\A t \in TaskIds :
         (/\ tasks[t].pc = "profile"
          /\ tasks'[t].pc \in {"memories", "mark"}
          /\ tasks[t].resp.summary # {})
           => profile[tasks[t].user].summary
                 \subseteq profile'[tasks[t].user].summary]_vars

\* C37: every message id carried by an enqueued consolidation task refers
\* to a durably committed UserMessage row: no task on the queue carries a
\* message whose append was rolled back, and no run has started while a
\* message of its batch was still uncommitted.
C37_TaskBatchCommitted ==
    \A t \in TaskIds : \A m \in SeqToSet(tasks[t].batch) :
        /\ messages[m].state # "rolledback"
        /\ tasks[t].pc # "queued" => messages[m].state # "flushed"

\* C38: within one run each candidate is compared only with the points that
\* existed before the run, never with the other candidates of the batch:
\* for every text, the run adds at least as many Memory rows as the batch
\* has candidates with that text (after trimming) that are not blank and
\* have no similar point of the owner, so two identical candidates both
\* become rows.
C38_NoDedupWithinBatch ==
    [][\A t \in TaskIds :
         (tasks[t].pc = "memories" /\ tasks'[t].memCommit = "ok")
           => LET u == tasks[t].user
                  cands == tasks[t].resp.memories
                  fresh == {i \in 1..Len(cands) :
                              /\ Strip(cands[i]) # ""
                              /\ search_similar_memories(Strip(cands[i]), u) = {}}
              IN \A c \in {Strip(cands[i]) : i \in fresh} :
                    Cardinality({r \in memRows' \ memRows : r.content = c /\ r.user = u})
                      >= Cardinality({i \in fresh : Strip(cands[i]) = c})]_vars

\* A run stored two candidates with the same text as two Memory rows
C38_Witness ==
    \E t \in TaskIds :
        /\ tasks[t].memCommit = "ok"
        /\ Len(tasks[t].memData) = 2
        /\ tasks[t].memData[1].content = tasks[t].memData[2].content
        /\ tasks[t].memData[1].memory_id # tasks[t].memData[2].memory_id
        /\ RowsOf(tasks[t].memData, tasks[t].user) \subseteq memRows

\* C39: if the duplicate check of a candidate raises, the candidate is
\* taken for not a duplicate and is stored, and the run goes on with the
\* remaining candidates; blank candidates are never stored.  For whatever
\* set of checks raised in the step, the batch holds, for every text, at
\* least as many entries as there are non-blank candidates with that text
\* whose check raised or found no similar point, and no entry is blank.
C39_FailedCheckStores ==
    [][\A t \in TaskIds :
         (tasks[t].pc = "memories" /\ tasks'[t].pc \in {"vectors", "mark"})
           => LET u == tasks[t].user
                  cands == tasks[t].resp.memories
                  data == tasks'[t].memData
              IN /\ \A k \in 1..Len(data) : data[k].content # ""
                 /\ \A raiseSet \in SUBSET (1..Len(cands)) :
                      data = MemoryData(Kept(cands, 1, u, raiseSet), nextId)
                        => \A i \in 1..Len(cands) :
                             (/\ Strip(cands[i]) # ""
                              /\ \/ i \in raiseSet
                                 \/ search_similar_memories(Strip(cands[i]), u) = {})
                               => Cardinality({k \in 1..Len(data) :
                                                 data[k].content = Strip(cands[i])})
                                    >= Cardinality({j \in 1..Len(cands) :
                                          /\ Strip(cands[j]) = Strip(cands[i])
                                          /\ \/ j \in raiseSet
                                             \/ search_similar_memories(Strip(cands[j]), u) = {}})
                 /\ tasks'[t].memCommit = "ok"
                      => RowsOf(data, u) \subseteq memRows']_vars

\* A run stored a candidate as a Memory row although the index holds a
\* similar point of the owner from an earlier batch
C39_Witness ==
    \E t \in TaskIds :
        /\ tasks[t].memCommit = "ok"
        /\ Len(tasks[t].memData) > 0
        /\ RowsOf(tasks[t].memData, tasks[t].user) \subseteq memRows
        /\ \E p \in points :
             /\ p.user = tasks[t].user
             /\ p.id < tasks[t].memData[1].memory_id
             /\ CosGE(Embed(tasks[t].memData[1].content), Embed(p.content), DedupThreshold)

\* C40: a consolidation run for owner A never changes is_processed on a
\* message owned by B # A, whatever arguments the task was invoked with:
\* the rows its mark step flips are rows of the run's own user.
C40_MarksOwnMessagesOnly ==
    [][\A t \in TaskIds :
         (tasks[t].pc = "mark" /\ tasks'[t].pc = "done")
           => \A m \in MsgIds :
                messages'[m].processed # messages[m].processed
                  => messages[m].user = tasks[t].user]_vars

====
